---- MODULE Spec2Model ----
(***************************************************************************)
(* Abstract Factory examples of the Design-Patterns repository:            *)
(*   src/FurnitureShopSimulator.cpp  (Chair / Sofa / CoffeeTable families) *)
(*   src/CreationalPatterns/Singleton/Singleton.cpp (GuiFactory, runGui)   *)
(*                                                                         *)
(* A std::string is modelled as the sequence of its characters, one        *)
(* one-character string per char; a byte outside ASCII is written by its   *)
(* hexadecimal value ("0xE2").  Objects live in `heap`, a sequence that    *)
(* only grows: an address is an index into it and is never reused, so two  *)
(* objects are the same object exactly when their addresses are equal.     *)
(* `new` is taken to succeed: the code has no path for a failed allocation.*)
(***************************************************************************)
EXTENDS Naturals, Sequences, FiniteSets

\* ---------------------------------------------------------------- bounds
MaxObjects == 2
NumThreads == 2
MaxRuns == 2
MaxSandwiches == 5
MaxParts == 2
MaxBuilds == 1

VARIABLES
    heap,         \* the products on the free store, by address
    pc,           \* per thread: "idle", or "new" inside a creation call
    cur,          \* per thread: the creation call it is executing
    ncalls,       \* number of creation calls the threads have issued
    last,         \* the last use / collaboration call and what it returned
    cpc,          \* the client's statement, "<function>:<source line>"
    factory,      \* class of the factory the running client was passed
    chair,        \* ClientCode's local pointers (0: not yet initialised)
    sofa,
    coffeetable,
    window,       \* runGui's local pointers
    button,
    trace,        \* operations the running client has performed
    out,          \* Descriptions the running client has written to cout
    runs,         \* the finished runs
    instanceGuard, \* per getInstance<T>: state of its static local's guard
    instance,     \* per getInstance<T>: its static unique_ptr (0: empty)
    singletons,   \* the Singleton objects constructed so far, by address
    spc,          \* per Singleton thread: its position in getInstance
    sarg,         \* per Singleton thread: the argument of its call
    sret,         \* per Singleton thread: the pointer its last call returned
    sandwiches,   \* the Sandwich objects, by address
    sandwich,     \* per builder: its member unique_ptr<Sandwich> (0: null)
    added,        \* per builder: parts added since its last reset/getProduct
    products,     \* the sandwiches getProduct has handed to the client
    builder,      \* Director::builder
    lastSet,      \* the argument of the latest setBuilder ("unset": none)
    outcome       \* how the latest buildProduct since then ended

singletonVars == << instanceGuard, instance, singletons, spc, sarg, sret >>
builderVars == << sandwiches, sandwich, added, products >>
directorVars == << builder, lastSet, outcome >>
restVars == << singletonVars, builderVars, directorVars >>
vars == << heap, pc, cur, ncalls, last,
           cpc, factory, chair, sofa, coffeetable, window, button,
           trace, out, runs, restVars >>
threadVars == << pc, cur, ncalls >>
clientVars == << cpc, factory, chair, sofa, coffeetable, window, button,
                 trace, out, runs >>

Threads == 1 .. NumThreads
MainThread == 1

\* ------------------------------------------------------- class hierarchy
FurnitureFactory == { "ModernFurnitureFactory", "VictorianFurnitureFactory",
                      "ArtDecoFurnitureFactory" }
GuiFactory == { "WindowsGuiFactory", "MacGuiFactory" }
Chair == { "ModernChair", "VictorianChair", "ArtDecoChair" }
Sofa == { "ModernSofa", "VictorianSofa", "ArtDecoSofa" }
CoffeeTable == { "ModernCoffeeTable", "VictorianCoffeeTable",
                 "ArtDecoCoffeeTable" }
Window == { "WindowsWindow", "MacWindow" }
Button == { "WindowsButton", "MacButton" }
FurnitureOps == { "createChair", "createSofa", "createCoffeeTable" }

\* The variant (family) a concrete product class belongs to.
Variant(cls) ==
    CASE cls \in { "ModernChair", "ModernSofa", "ModernCoffeeTable" } -> "Modern"
      [] cls \in { "VictorianChair", "VictorianSofa", "VictorianCoffeeTable" } -> "Victorian"
      [] cls \in { "ArtDecoChair", "ArtDecoSofa", "ArtDecoCoffeeTable" } -> "ArtDeco"
      [] cls \in { "WindowsWindow", "WindowsButton" } -> "Windows"
      [] cls \in { "MacWindow", "MacButton" } -> "Mac"

\* The variant a concrete factory class is bound to.
FactoryVariant(f) ==
    CASE f = "ModernFurnitureFactory" -> "Modern"
      [] f = "VictorianFurnitureFactory" -> "Victorian"
      [] f = "ArtDecoFurnitureFactory" -> "ArtDeco"
      [] f = "WindowsGuiFactory" -> "Windows"
      [] f = "MacGuiFactory" -> "Mac"

\* The abstract product (static type) of a concrete product class.
Kind(cls) ==
    CASE cls \in Chair -> "Chair"
      [] cls \in Sofa -> "Sofa"
      [] cls \in CoffeeTable -> "CoffeeTable"
      [] cls \in Window -> "Window"
      [] cls \in Button -> "Button"

\* ------------------------------------------------- Chair::sitOn overrides
sitOn(cls) ==
    CASE cls = "ModernChair" ->
        << "Y", "o", "u", " ", "c", "a", "n", " ", "s", "i", "t", " ", "o", "n",
        " ", "M", "O", "D", "E", "R", "N", " ", "c", "h", "a", "i", "r",
        "\n" >>
      [] cls = "VictorianChair" ->
        << "Y", "o", "u", " ", "c", "a", "n", " ", "s", "i", "t", " ", "o", "n",
        " ", "V", "I", "C", "T", "O", "R", "I", "A", "N", " ", "c", "h", "a",
        "i", "r", "\n" >>
      [] cls = "ArtDecoChair" ->
        << "Y", "o", "u", " ", "c", "a", "n", " ", "s", "i", "t", " ", "o", "n",
        " ", "A", "R", "T", "D", "E", "C", "O", " ", "c", "h", "a", "i", "r",
        "\n" >>

\* -------------------------------------------------- Sofa::layOn overrides
layOn(cls) ==
    CASE cls = "ModernSofa" ->
        << "Y", "o", "u", " ", "c", "a", "n", " ", "l", "i", "e", " ", "o", "n",
        " ", "M", "O", "D", "E", "R", "N", " ", "S", "o", "f", "a", "\n" >>
      [] cls = "VictorianSofa" ->
        << "Y", "o", "u", " ", "c", "a", "n", " ", "l", "i", "e", " ", "o", "n",
        " ", "V", "I", "C", "T", "O", "R", "I", "A", "N", " ", "S", "o", "f",
        "a", "\n" >>
      [] cls = "ArtDecoSofa" ->
        << "Y", "o", "u", " ", "c", "a", "n", " ", "l", "i", "e", " ", "o", "n",
        " ", "A", "R", "T", "D", "E", "C", "O", " ", "S", "o", "f", "a",
        "\n" >>

\* ----------------------------------------------- Sofa::putAside overrides
\* Mutant of putAside: VictorianSofa builds its own phrase and forgets to
\* append the collaborator's sitOn().
putAside_dropsResult(cls, collaboratorChair) ==
    LET result == sitOn(collaboratorChair) IN
    CASE cls = "ModernSofa" ->
        << "N", "o", "w", " ", "y", "o", "u", " ", "c", "a", "n", " ", "l", "i",
        "e", " ", "o", "n", " ", "M", "o", "d", "e", "r", "n", " ", "S", "o",
        "f", "a", " ", "a", "n", "d", " " >> \o result
      [] cls = "VictorianSofa" ->
        << "N", "o", "w", " ", "y", "o", "u", " ", "c", "a", "n", " ", "l", "i",
        "e", " ", "o", "n", " ", "V", "i", "c", "t", "o", "r", "i", "a", "n",
        " ", "s", "o", "f", "a", " ", "a", "n", "d", " " >>
      [] cls = "ArtDecoSofa" ->
        << "N", "o", "w", " ", "y", "o", "u", " ", "c", "a", "n", " ", "l", "i",
        "e", " ", "o", "n", " ", "A", "r", "d", "D", "e", "c", "o", " ", "s",
        "o", "f", "a", " ", "a", "n", "d", " " >> \o result

\* cls is the dynamic class of the sofa, collaboratorChair that of the chair.
putAside(cls, collaboratorChair) ==
    LET result == sitOn(collaboratorChair) IN
    CASE cls = "ModernSofa" ->
        << "N", "o", "w", " ", "y", "o", "u", " ", "c", "a", "n", " ", "l", "i",
        "e", " ", "o", "n", " ", "M", "o", "d", "e", "r", "n", " ", "S", "o",
        "f", "a", " ", "a", "n", "d", " " >> \o result
      [] cls = "VictorianSofa" ->
        << "N", "o", "w", " ", "y", "o", "u", " ", "c", "a", "n", " ", "l", "i",
        "e", " ", "o", "n", " ", "V", "i", "c", "t", "o", "r", "i", "a", "n",
        " ", "s", "o", "f", "a", " ", "a", "n", "d", " " >> \o result
      [] cls = "ArtDecoSofa" ->
        << "N", "o", "w", " ", "y", "o", "u", " ", "c", "a", "n", " ", "l", "i",
        "e", " ", "o", "n", " ", "A", "r", "d", "D", "e", "c", "o", " ", "s",
        "o", "f", "a", " ", "a", "n", "d", " " >> \o result

\* ---------------------------------------- CoffeeTable::coffeeOnMe overrides
\* Mutant of coffeeOnMe: the ArtDeco override was copied from the Victorian
\* one and its text was not changed.
coffeeOnMe_copyPaste(cls) ==
    CASE cls = "ModernCoffeeTable" ->
        << "Y", "o", "u", "'", "r", "e", " ", "e", "n", "j", "o", "y", "i", "n",
        "g", " ", "a", " ", "c", "u", "p", " ", "o", "f", " ", "c", "o", "f",
        "f", "e", "e", " ", "o", "n", " ", "M", "o", "d", "e", "r", "n", " ",
        "C", "o", "f", "f", "e", "e", " ", "T", "a", "b", "l", "e", "\n" >>
      [] cls = "VictorianCoffeeTable" ->
        << "Y", "o", "u", "'", "r", "e", " ", "e", "n", "j", "o", "y", "i", "n",
        "g", " ", "a", " ", "c", "u", "p", " ", "o", "f", " ", "c", "o", "f",
        "f", "e", "e", " ", "o", "n", " ", "V", "i", "c", "t", "o", "r", "i",
        "a", "n", " ", "C", "o", "f", "f", "e", "e", " ", "T", "a", "b", "l",
        "e", "\n" >>
      [] cls = "ArtDecoCoffeeTable" ->
        << "Y", "o", "u", "'", "r", "e", " ", "e", "n", "j", "o", "y", "i", "n",
        "g", " ", "a", " ", "c", "u", "p", " ", "o", "f", " ", "c", "o", "f",
        "f", "e", "e", " ", "o", "n", " ", "V", "i", "c", "t", "o", "r", "i",
        "a", "n", " ", "C", "o", "f", "f", "e", "e", " ", "T", "a", "b", "l",
        "e", "\n" >>

coffeeOnMe(cls) ==
    CASE cls = "ModernCoffeeTable" ->
        << "Y", "o", "u", "'", "r", "e", " ", "e", "n", "j", "o", "y", "i", "n",
        "g", " ", "a", " ", "c", "u", "p", " ", "o", "f", " ", "c", "o", "f",
        "f", "e", "e", " ", "o", "n", " ", "M", "o", "d", "e", "r", "n", " ",
        "C", "o", "f", "f", "e", "e", " ", "T", "a", "b", "l", "e", "\n" >>
      [] cls = "VictorianCoffeeTable" ->
        << "Y", "o", "u", "'", "r", "e", " ", "e", "n", "j", "o", "y", "i", "n",
        "g", " ", "a", " ", "c", "u", "p", " ", "o", "f", " ", "c", "o", "f",
        "f", "e", "e", " ", "o", "n", " ", "V", "i", "c", "t", "o", "r", "i",
        "a", "n", " ", "C", "o", "f", "f", "e", "e", " ", "T", "a", "b", "l",
        "e", "\n" >>
      [] cls = "ArtDecoCoffeeTable" ->
        << "Y", "o", "u", "'", "r", "e", " ", "e", "n", "j", "o", "y", "i", "n",
        "g", " ", "a", " ", "c", "u", "p", " ", "o", "f", " ", "c", "o", "f",
        "f", "e", "e", " ", "o", "n", " ", "A", "r", "t", "D", "e", "c", "o",
        " ", "c", "o", "f", "f", "e", "e", " ", "t", "a", "b", "l", "e",
        "\n" >>

\* ----------------------------------------- CoffeeTable::sittingOn overrides
\* Mutant of sittingOn: ModernCoffeeTable concatenates in the other order.
sittingOn_swapped(cls, collaboratorSofa) ==
    LET result == layOn(collaboratorSofa) IN
    CASE cls = "ModernCoffeeTable" ->
        << "E", "n", "j", "o", "y", " ", "y", "o", "u", "r", " ", "c", "o", "f",
        "f", "e", "e", " ", "o", "n", " ", "M", "o", "d", "e", "r", "n", " ",
        "C", "o", "f", "f", "e", "e", " ", "T", "a", "b", "l", "e", "\n" >> \o result
      [] cls = "VictorianCoffeeTable" ->
        result \o << "E", "n", "j", "o", "y", " ", "y", "o", "u", "r", " ", "c", "o", "f",
        "f", "e", "e", " ", "o", "n", " ", "V", "i", "c", "t", "o", "r", "i",
        "a", "n", " ", "C", "o", "f", "f", "e", "e", " ", "t", "a", "b", "l",
        "e", "\n" >>
      [] cls = "ArtDecoCoffeeTable" ->
        result \o << "E", "n", "j", "o", "y", " ", "y", "o", "u", "r", " ", "c", "o", "f",
        "f", "e", "e", " ", "o", "n", " ", "A", "r", "t", "D", "e", "c", "o",
        " ", "c", "o", "f", "f", "e", "e", " ", "t", "a", "b", "l", "e",
        "\n" >>

sittingOn(cls, collaboratorSofa) ==
    LET result == layOn(collaboratorSofa) IN
    CASE cls = "ModernCoffeeTable" ->
        result \o << "E", "n", "j", "o", "y", " ", "y", "o", "u", "r", " ", "c", "o", "f",
        "f", "e", "e", " ", "o", "n", " ", "M", "o", "d", "e", "r", "n", " ",
        "C", "o", "f", "f", "e", "e", " ", "T", "a", "b", "l", "e", "\n" >>
      [] cls = "VictorianCoffeeTable" ->
        result \o << "E", "n", "j", "o", "y", " ", "y", "o", "u", "r", " ", "c", "o", "f",
        "f", "e", "e", " ", "o", "n", " ", "V", "i", "c", "t", "o", "r", "i",
        "a", "n", " ", "C", "o", "f", "f", "e", "e", " ", "t", "a", "b", "l",
        "e", "\n" >>
      [] cls = "ArtDecoCoffeeTable" ->
        result \o << "E", "n", "j", "o", "y", " ", "y", "o", "u", "r", " ", "c", "o", "f",
        "f", "e", "e", " ", "o", "n", " ", "A", "r", "t", "D", "e", "c", "o",
        " ", "c", "o", "f", "f", "e", "e", " ", "t", "a", "b", "l", "e",
        "\n" >>

\* ------------------------------------- Window::render / Button overrides
renderWindow(cls) ==
    CASE cls = "WindowsWindow" ->
        << "R", "e", "n", "d", "e", "r", "i", "n", "g", " ", "a", " ", "W", "i",
        "n", "d", "o", "w", "s", "-", "s", "t", "y", "l", "e", " ", "w", "i",
        "n", "d", "o", "w", "." >>
      [] cls = "MacWindow" ->
        << "R", "e", "n", "d", "e", "r", "i", "n", "g", " ", "a", " ", "m", "a",
        "c", "O", "S", "-", "s", "t", "y", "l", "e", " ", "w", "i", "n", "d",
        "o", "w", "." >>

renderButton(cls) ==
    CASE cls = "WindowsButton" ->
        << "R", "e", "n", "d", "e", "r", "i", "n", "g", " ", "a", " ", "W", "i",
        "n", "d", "o", "w", "s", "-", "s", "t", "y", "l", "e", " ", "b", "u",
        "t", "t", "o", "n", "." >>
      [] cls = "MacButton" ->
        << "R", "e", "n", "d", "e", "r", "i", "n", "g", " ", "a", " ", "m", "a",
        "c", "O", "S", "-", "s", "t", "y", "l", "e", " ", "b", "u", "t", "t",
        "o", "n", "." >>

clickInside(cls, windowCls) ==
    CASE cls = "WindowsButton" ->
        << "W", "i", "n", "d", "o", "w", "s", "B", "u", "t", "t", "o", "n", " ",
        "c", "l", "i", "c", "k", "e", "d", " ", "i", "n", "s", "i", "d", "e",
        " ", "0xE2", "0x86", "0x92", " ", "(" >> \o renderWindow(windowCls) \o << ")" >>
      [] cls = "MacButton" ->
        << "M", "a", "c", "B", "u", "t", "t", "o", "n", " ", "c", "l", "i", "c",
        "k", "e", "d", " ", "i", "n", "s", "i", "d", "e", " ",
        "0xE2", "0x86", "0x92", " ", "(" >> \o renderWindow(windowCls) \o << ")" >>

\* ------------------------------------------------------ concrete factories
createChair(f) ==
    CASE f = "ModernFurnitureFactory" -> "ModernChair"
      [] f = "VictorianFurnitureFactory" -> "VictorianChair"
      [] f = "ArtDecoFurnitureFactory" -> "ArtDecoChair"

\* Mutant of createSofa: the Victorian factory's override was copied from
\* the Modern factory and still constructs a ModernSofa.
createSofa_copyPaste(f) ==
    CASE f = "ModernFurnitureFactory" -> "ModernSofa"
      [] f = "VictorianFurnitureFactory" -> "ModernSofa"
      [] f = "ArtDecoFurnitureFactory" -> "ArtDecoSofa"

createSofa(f) ==
    CASE f = "ModernFurnitureFactory" -> "ModernSofa"
      [] f = "VictorianFurnitureFactory" -> "VictorianSofa"
      [] f = "ArtDecoFurnitureFactory" -> "ArtDecoSofa"

createCoffeeTable(f) ==
    CASE f = "ModernFurnitureFactory" -> "ModernCoffeeTable"
      [] f = "VictorianFurnitureFactory" -> "VictorianCoffeeTable"
      [] f = "ArtDecoFurnitureFactory" -> "ArtDecoCoffeeTable"

createWindow(f) ==
    CASE f = "WindowsGuiFactory" -> "WindowsWindow"
      [] f = "MacGuiFactory" -> "MacWindow"

createButton(f) ==
    CASE f = "WindowsGuiFactory" -> "WindowsButton"
      [] f = "MacGuiFactory" -> "MacButton"

\* Virtual dispatch of a creation operation: the class of the object that
\* the `new` expression inside f's override of op constructs.
Create(f, op) ==
    CASE op = "createChair" -> createChair(f)
      [] op = "createSofa" -> createSofa(f)
      [] op = "createCoffeeTable" -> createCoffeeTable(f)
      [] op = "createWindow" -> createWindow(f)
      [] op = "createButton" -> createButton(f)

\* The abstract product type each creation operation is declared to return.
Returns(op) ==
    CASE op = "createChair" -> "Chair"
      [] op = "createSofa" -> "Sofa"
      [] op = "createCoffeeTable" -> "CoffeeTable"
      [] op = "createWindow" -> "Window"
      [] op = "createButton" -> "Button"

\* Virtual dispatch of the one-argument-free operation of each product kind.
Use(cls) ==
    CASE cls \in Chair -> sitOn(cls)
      [] cls \in Sofa -> layOn(cls)
      [] cls \in CoffeeTable -> coffeeOnMe(cls)
      [] cls \in Window -> renderWindow(cls)
      [] cls \in Button -> renderButton(cls)

\* ------------------------------------------------------------------ heap
\* st: "raw" (storage obtained, constructor not yet run), "live", "freed".
\* madeBy / op / dels are history: the factory and operation whose `new`
\* obtained the storage, and how many times the object was deleted.
NoCall == [ factory |-> "none", op |-> "none", addr |-> 0 ]
NoResult == [ op |-> "none", self |-> 0, arg |-> 0, result |-> << >> ]

RawObject(f, op) ==
    [ cls |-> "none", st |-> "raw", madeBy |-> f, op |-> op, dels |-> 0 ]

Live(h, p) == p \in DOMAIN h /\ h[p].st = "live"

\* operator new: fresh storage at the next address.
OperatorNew(h, f, op) == Append(h, RawObject(f, op))

\* The constructor of class cls runs on the storage at address a.
Constructed(h, a, cls) == [ h EXCEPT ![a].cls = cls, ![a].st = "live" ]

\* delete p: destructor and operator delete.
Deleted(h, p) == [ h EXCEPT ![p].st = "freed", ![p].dels = @ + 1 ]

\* ------------------------------------------- Singleton.cpp: Singleton
\* The threads main starts (t1 runs foo, t2 runs bar).
SingletonThreads == { "t1", "t2" }

\* Argument expressions a caller may pass, each with the template argument
\* T that getInstance(T&& val) deduces for it: a string literal is an lvalue
\* of type const char[N], a std::string temporary an rvalue.
SingletonArgs ==
    { [ val |-> "foo", T |-> "const char (&)[4]" ],
      [ val |-> "bar", T |-> "const char (&)[4]" ],
      [ val |-> "hello", T |-> "const char (&)[6]" ],
      [ val |-> "foo", T |-> "std::string" ] }

\* The specializations of the member template getInstance; each has its own
\* function-local static `instance`.
Instantiations == { a.T : a \in SingletonArgs }

NoArg == [ val |-> "", T |-> "none" ]

InitSingleton ==
    /\ instanceGuard = [ T \in Instantiations |-> "uninit" ]
    /\ instance = [ T \in Instantiations |-> 0 ]
    /\ singletons = << >>
    /\ spc = [ t \in SingletonThreads |-> "idle" ]
    /\ sarg = [ t \in SingletonThreads |-> NoArg ]
    /\ sret = [ t \in SingletonThreads |-> 0 ]

\* ------------------------------------- Builder.cpp: builders, Director
\* The three builder objects of clientSide, one of each concrete class.
Builders == { "VegSandwichBuilder", "ChickenBurgerBuilder",
              "BeefBurgerBuilder" }

\* The address make_unique<Sandwich>() returns in each builder's constructor.
FirstSandwich(b) ==
    CASE b = "VegSandwichBuilder" -> 1
      [] b = "ChickenBurgerBuilder" -> 2
      [] b = "BeefBurgerBuilder" -> 3

\* A default-constructed Sandwich; `by` records the builder that made it.
NewSandwich(b) == [ parts |-> << >>, st |-> "live", by |-> b ]

\* State after `Director director;` and the three builder constructors,
\* each of which calls reset().
InitBuilder ==
    /\ sandwiches = << NewSandwich("VegSandwichBuilder"),
                       NewSandwich("ChickenBurgerBuilder"),
                       NewSandwich("BeefBurgerBuilder") >>
    /\ sandwich = [ b \in Builders |-> FirstSandwich(b) ]
    /\ added = [ b \in Builders |-> << >> ]
    /\ products = { }
    /\ builder = "nullptr"
    /\ lastSet = "unset"
    /\ outcome = "none"

Init ==
    /\ InitSingleton
    /\ InitBuilder
    /\ heap = << >>
    /\ pc = [ t \in Threads |-> "idle" ]
    /\ cur = [ t \in Threads |-> NoCall ]
    /\ ncalls = 0
    /\ last = NoResult
    /\ cpc = "main"
    /\ factory = "none"
    /\ chair = 0
    /\ sofa = 0
    /\ coffeetable = 0
    /\ window = 0
    /\ button = 0
    /\ trace = << >>
    /\ out = << >>
    /\ runs = << >>

\* ------------------------------------------- creation calls, per thread
\* Mutant of CreateCall: the factory keeps the product it made and hands the
\* same object out again when the same operation is called a second time.
CreateCall_cached(t, f, op) ==
    LET made == { p \in DOMAIN heap : heap[p].madeBy = f /\ heap[p].op = op }
    IN  /\ pc[t] = "idle"
        /\ Len(heap) < MaxObjects
        /\ IF made = {}
              THEN /\ heap' = OperatorNew(heap, f, op)
                   /\ cur' = [ cur EXCEPT ![t] = [ factory |-> f, op |-> op,
                                                   addr |-> Len(heap) + 1 ] ]
              ELSE /\ heap' = heap
                   /\ cur' = [ cur EXCEPT ![t] = [ factory |-> f, op |-> op,
                                   addr |-> CHOOSE p \in made : TRUE ] ]
        /\ pc' = [ pc EXCEPT ![t] = "new" ]
        /\ ncalls' = ncalls + 1
        /\ UNCHANGED << restVars, last, clientVars >>

\* Thread t calls f.op(): the override is entered and its `new` expression
\* obtains storage.
CreateCall(t, f, op) ==
    /\ pc[t] = "idle"
    /\ Len(heap) < MaxObjects
    /\ heap' = OperatorNew(heap, f, op)
    /\ cur' = [ cur EXCEPT ![t] = [ factory |-> f, op |-> op,
                                    addr |-> Len(heap) + 1 ] ]
    /\ pc' = [ pc EXCEPT ![t] = "new" ]
    /\ ncalls' = ncalls + 1
    /\ UNCHANGED << restVars, last, clientVars >>

\* Mutant of CreateReturn: the override keeps the pointer it is building in
\* a slot shared by all calls, so it constructs at the newest storage.
CreateReturn_sharedSlot(t) ==
    /\ pc[t] = "new"
    /\ heap' = Constructed(heap, Len(heap), Create(cur[t].factory, cur[t].op))
    /\ pc' = [ pc EXCEPT ![t] = "idle" ]
    /\ UNCHANGED << restVars, cur, ncalls, last, clientVars >>

\* The constructor runs and the call returns the pointer cur[t].addr.
CreateReturn(t) ==
    /\ pc[t] = "new"
    /\ heap' = Constructed(heap, cur[t].addr, Create(cur[t].factory, cur[t].op))
    /\ pc' = [ pc EXCEPT ![t] = "idle" ]
    /\ UNCHANGED << restVars, cur, ncalls, last, clientVars >>

\* Thread t, owner of the live product p, deletes it.
Release(t, p) ==
    /\ pc[t] = "idle"
    /\ Live(heap, p)
    /\ heap' = Deleted(heap, p)
    /\ UNCHANGED << restVars, threadVars, last, clientVars >>

\* ------------------------------ use and collaboration calls (main thread)
\* The calls below are made by the main thread between creation calls, on
\* pointers to live products of the static type the callee declares.
HoldsA(kind, p) == Live(heap, p) /\ Returns(heap[p].op) = kind

\* chair->sitOn()
SitOn(c) ==
    /\ pc[MainThread] = "idle"
    /\ HoldsA("Chair", c)
    /\ last' = [ op |-> "sitOn", self |-> c, arg |-> 0,
                 result |-> sitOn(heap[c].cls) ]
    /\ UNCHANGED << restVars, heap, threadVars, clientVars >>

\* sofa->layOn()
LayOn(s) ==
    /\ pc[MainThread] = "idle"
    /\ HoldsA("Sofa", s)
    /\ last' = [ op |-> "layOn", self |-> s, arg |-> 0,
                 result |-> layOn(heap[s].cls) ]
    /\ UNCHANGED << restVars, heap, threadVars, clientVars >>

\* Mutant of PutAside: the sofa refuses a chair of another variant and
\* returns an empty Description.
PutAside_variantCheck(s, c) ==
    /\ pc[MainThread] = "idle"
    /\ HoldsA("Sofa", s)
    /\ HoldsA("Chair", c)
    /\ last' = [ op |-> "putAside", self |-> s, arg |-> c,
                 result |-> IF Variant(heap[s].cls) = Variant(heap[c].cls)
                              THEN putAside(heap[s].cls, heap[c].cls)
                              ELSE << >> ]
    /\ UNCHANGED << restVars, heap, threadVars, clientVars >>

\* sofa->putAside(*chair)
PutAside(s, c) ==
    /\ pc[MainThread] = "idle"
    /\ HoldsA("Sofa", s)
    /\ HoldsA("Chair", c)
    /\ last' = [ op |-> "putAside", self |-> s, arg |-> c,
                 result |-> putAside(heap[s].cls, heap[c].cls) ]
    /\ UNCHANGED << restVars, heap, threadVars, clientVars >>

\* coffeetable->coffeeOnMe()
CoffeeOnMe(ct) ==
    /\ pc[MainThread] = "idle"
    /\ HoldsA("CoffeeTable", ct)
    /\ last' = [ op |-> "coffeeOnMe", self |-> ct, arg |-> 0,
                 result |-> coffeeOnMe(heap[ct].cls) ]
    /\ UNCHANGED << restVars, heap, threadVars, clientVars >>

\* Mutant of SittingOn: the table restyles the sofa it is given to its own
\* variant before describing it.
SittingOn_restyles(ct, s) ==
    /\ pc[MainThread] = "idle"
    /\ HoldsA("CoffeeTable", ct)
    /\ HoldsA("Sofa", s)
    /\ last' = [ op |-> "sittingOn", self |-> ct, arg |-> s,
                 result |-> sittingOn(heap[ct].cls, heap[s].cls) ]
    /\ heap' = [ heap EXCEPT
                   ![s].cls = createSofa(heap[ct].madeBy) ]
    /\ UNCHANGED << restVars, threadVars, clientVars >>

\* coffeetable->sittingOn(*sofa)
SittingOn(ct, s) ==
    /\ pc[MainThread] = "idle"
    /\ HoldsA("CoffeeTable", ct)
    /\ HoldsA("Sofa", s)
    /\ last' = [ op |-> "sittingOn", self |-> ct, arg |-> s,
                 result |-> sittingOn(heap[ct].cls, heap[s].cls) ]
    /\ UNCHANGED << restVars, heap, threadVars, clientVars >>

\* ------------------------------------------------- clients: common parts
\* f.op() called and returned within one step of the single client thread.
NewProduct(h, f, op) ==
    Constructed(OperatorNew(h, f, op), Len(h) + 1, Create(f, op))

\* One entry of `trace`: the operation and the abstract types involved.
Call(op, self, arg) == [ op |-> op, self |-> self, arg |-> arg ]

\* The record of a finished run, appended to `runs` when the client returns.
Run(client) ==
    [ client |-> client, factory |-> factory, trace |-> trace, out |-> out,
      products |-> { chair, sofa, coffeetable, window, button } \ { 0 } ]

\* --------------------- FurnitureShopSimulator.cpp: main and ClientCode
\* main: `new` one concrete factory and call ClientCode(*factory).  The
\* driver may pick any of the three factories for each run; the headings
\* main prints are not part of `out`, which holds what the client writes.
main_newFactory(f) ==
    /\ cpc = "main"
    /\ Len(runs) < MaxRuns
    /\ factory' = f
    /\ cpc' = "ClientCode:170"
    /\ chair' = 0 /\ sofa' = 0 /\ coffeetable' = 0
    /\ window' = 0 /\ button' = 0
    /\ trace' = << >>
    /\ out' = << >>
    /\ UNCHANGED << restVars, heap, threadVars, last, runs >>

\* const Chair* chair = factory.createChair();
ClientCode_createChair ==
    /\ cpc = "ClientCode:170"
    /\ heap' = NewProduct(heap, factory, "createChair")
    /\ chair' = Len(heap) + 1
    /\ trace' = Append(trace, Call("createChair", "FurnitureFactory",
                                   Kind(createChair(factory))))
    /\ cpc' = "ClientCode:171"
    /\ UNCHANGED << restVars, threadVars, last, factory, sofa, coffeetable, window,
                    button, out, runs >>

\* const Sofa* sofa = factory.createSofa();
ClientCode_createSofa ==
    /\ cpc = "ClientCode:171"
    /\ heap' = NewProduct(heap, factory, "createSofa")
    /\ sofa' = Len(heap) + 1
    /\ trace' = Append(trace, Call("createSofa", "FurnitureFactory",
                                   Kind(createSofa(factory))))
    /\ cpc' = "ClientCode:172"
    /\ UNCHANGED << restVars, threadVars, last, factory, chair, coffeetable, window,
                    button, out, runs >>

\* const CoffeeTable* coffeetable = factory.createCoffeeTable();
ClientCode_createCoffeeTable ==
    /\ cpc = "ClientCode:172"
    /\ heap' = NewProduct(heap, factory, "createCoffeeTable")
    /\ coffeetable' = Len(heap) + 1
    /\ trace' = Append(trace, Call("createCoffeeTable", "FurnitureFactory",
                                   Kind(createCoffeeTable(factory))))
    /\ cpc' = "ClientCode:173"
    /\ UNCHANGED << restVars, threadVars, last, factory, chair, sofa, window, button,
                    out, runs >>

\* Mutant of ClientCode_sitOn: the client skips the chair of one variant.
ClientCode_sitOn_variantLogic ==
    /\ cpc = "ClientCode:173"
    /\ IF factory = "ArtDecoFurnitureFactory"
         THEN UNCHANGED << out, trace >>
         ELSE /\ out' = Append(out, sitOn(heap[chair].cls))
              /\ trace' = Append(trace, Call("sitOn", Kind(heap[chair].cls),
                                             "none"))
    /\ cpc' = "ClientCode:174"
    /\ UNCHANGED << restVars, heap, threadVars, last, factory, chair, sofa,
                    coffeetable, window, button, runs >>

\* std::cout<<chair->sitOn();
ClientCode_sitOn ==
    /\ cpc = "ClientCode:173"
    /\ out' = Append(out, sitOn(heap[chair].cls))
    /\ trace' = Append(trace, Call("sitOn", Kind(heap[chair].cls), "none"))
    /\ cpc' = "ClientCode:174"
    /\ UNCHANGED << restVars, heap, threadVars, last, factory, chair, sofa,
                    coffeetable, window, button, runs >>

\* std::cout<<sofa->layOn();
ClientCode_layOn ==
    /\ cpc = "ClientCode:174"
    /\ out' = Append(out, layOn(heap[sofa].cls))
    /\ trace' = Append(trace, Call("layOn", Kind(heap[sofa].cls), "none"))
    /\ cpc' = "ClientCode:175"
    /\ UNCHANGED << restVars, heap, threadVars, last, factory, chair, sofa,
                    coffeetable, window, button, runs >>

\* std::cout<<sofa->putAside(*chair);
ClientCode_putAside ==
    /\ cpc = "ClientCode:175"
    /\ out' = Append(out, putAside(heap[sofa].cls, heap[chair].cls))
    /\ trace' = Append(trace, Call("putAside", Kind(heap[sofa].cls),
                                   Kind(heap[chair].cls)))
    /\ cpc' = "ClientCode:176"
    /\ UNCHANGED << restVars, heap, threadVars, last, factory, chair, sofa,
                    coffeetable, window, button, runs >>

\* std::cout<<coffeetable->coffeeOnMe();
ClientCode_coffeeOnMe ==
    /\ cpc = "ClientCode:176"
    /\ out' = Append(out, coffeeOnMe(heap[coffeetable].cls))
    /\ trace' = Append(trace, Call("coffeeOnMe", Kind(heap[coffeetable].cls),
                                   "none"))
    /\ cpc' = "ClientCode:177"
    /\ UNCHANGED << restVars, heap, threadVars, last, factory, chair, sofa,
                    coffeetable, window, button, runs >>

\* std::cout<<coffeetable->sittingOn(*sofa);
ClientCode_sittingOn ==
    /\ cpc = "ClientCode:177"
    /\ out' = Append(out, sittingOn(heap[coffeetable].cls, heap[sofa].cls))
    /\ trace' = Append(trace, Call("sittingOn", Kind(heap[coffeetable].cls),
                                   Kind(heap[sofa].cls)))
    /\ cpc' = "ClientCode:178"
    /\ UNCHANGED << restVars, heap, threadVars, last, factory, chair, sofa,
                    coffeetable, window, button, runs >>

\* delete chair;
ClientCode_deleteChair ==
    /\ cpc = "ClientCode:178"
    /\ heap' = Deleted(heap, chair)
    /\ trace' = Append(trace, Call("delete", Kind(heap[chair].cls), "none"))
    /\ cpc' = "ClientCode:179"
    /\ UNCHANGED << restVars, threadVars, last, factory, chair, sofa, coffeetable,
                    window, button, out, runs >>

\* Mutant of ClientCode_deleteSofa: the statement deletes the chair a second
\* time instead of the sofa.
ClientCode_deleteSofa_wrongPointer ==
    /\ cpc = "ClientCode:179"
    /\ heap' = Deleted(heap, chair)
    /\ trace' = Append(trace, Call("delete", Kind(heap[chair].cls), "none"))
    /\ cpc' = "ClientCode:180"
    /\ UNCHANGED << restVars, threadVars, last, factory, chair, sofa, coffeetable,
                    window, button, out, runs >>

\* delete sofa;
ClientCode_deleteSofa ==
    /\ cpc = "ClientCode:179"
    /\ heap' = Deleted(heap, sofa)
    /\ trace' = Append(trace, Call("delete", Kind(heap[sofa].cls), "none"))
    /\ cpc' = "ClientCode:180"
    /\ UNCHANGED << restVars, threadVars, last, factory, chair, sofa, coffeetable,
                    window, button, out, runs >>

\* delete coffeetable;
ClientCode_deleteCoffeeTable ==
    /\ cpc = "ClientCode:180"
    /\ heap' = Deleted(heap, coffeetable)
    /\ trace' = Append(trace, Call("delete", Kind(heap[coffeetable].cls),
                                   "none"))
    /\ cpc' = "ClientCode:181"
    /\ UNCHANGED << restVars, threadVars, last, factory, chair, sofa, coffeetable,
                    window, button, out, runs >>

\* ClientCode returns to main.
ClientCode_return ==
    /\ cpc = "ClientCode:181"
    /\ runs' = Append(runs, Run("ClientCode"))
    /\ cpc' = "main:delete"
    /\ UNCHANGED << restVars, heap, threadVars, last, factory, chair, sofa,
                    coffeetable, window, button, trace, out >>

\* main: delete the factory.  FurnitureFactory declares no virtual
\* destructor; the factories have no members and no destructor body, so
\* every build only returns the storage.
main_deleteFactory ==
    /\ cpc = "main:delete"
    /\ factory' = "none"
    /\ cpc' = "main"
    /\ UNCHANGED << restVars, heap, threadVars, last, chair, sofa, coffeetable,
                    window, button, trace, out, runs >>

\* ------------------------------ GuiAbstractFactory: main and runGui
\* main: a factory object on the stack is passed to runGui.
gui_main(f) ==
    /\ cpc = "main"
    /\ Len(runs) < MaxRuns
    /\ factory' = f
    /\ cpc' = "runGui:312"
    /\ chair' = 0 /\ sofa' = 0 /\ coffeetable' = 0
    /\ window' = 0 /\ button' = 0
    /\ trace' = << >>
    /\ out' = << >>
    /\ UNCHANGED << restVars, heap, threadVars, last, runs >>

\* auto window = factory.createWindow();
runGui_createWindow ==
    /\ cpc = "runGui:312"
    /\ heap' = NewProduct(heap, factory, "createWindow")
    /\ window' = Len(heap) + 1
    /\ trace' = Append(trace, Call("createWindow", "GuiFactory",
                                   Kind(createWindow(factory))))
    /\ cpc' = "runGui:313"
    /\ UNCHANGED << restVars, threadVars, last, factory, chair, sofa, coffeetable,
                    button, out, runs >>

\* auto button = factory.createButton();
runGui_createButton ==
    /\ cpc = "runGui:313"
    /\ heap' = NewProduct(heap, factory, "createButton")
    /\ button' = Len(heap) + 1
    /\ trace' = Append(trace, Call("createButton", "GuiFactory",
                                   Kind(createButton(factory))))
    /\ cpc' = "runGui:315"
    /\ UNCHANGED << restVars, threadVars, last, factory, chair, sofa, coffeetable,
                    window, out, runs >>

\* std::cout << window->render() << "\n";
runGui_renderWindow ==
    /\ cpc = "runGui:315"
    /\ out' = Append(out, renderWindow(heap[window].cls))
    /\ trace' = Append(trace, Call("render", Kind(heap[window].cls), "none"))
    /\ cpc' = "runGui:316"
    /\ UNCHANGED << restVars, heap, threadVars, last, factory, chair, sofa,
                    coffeetable, window, button, runs >>

\* std::cout << button->render() << "\n";
runGui_renderButton ==
    /\ cpc = "runGui:316"
    /\ out' = Append(out, renderButton(heap[button].cls))
    /\ trace' = Append(trace, Call("render", Kind(heap[button].cls), "none"))
    /\ cpc' = "runGui:317"
    /\ UNCHANGED << restVars, heap, threadVars, last, factory, chair, sofa,
                    coffeetable, window, button, runs >>

\* std::cout << button->clickInside(*window) << "\n";
runGui_clickInside ==
    /\ cpc = "runGui:317"
    /\ out' = Append(out, clickInside(heap[button].cls, heap[window].cls))
    /\ trace' = Append(trace, Call("clickInside", Kind(heap[button].cls),
                                   Kind(heap[window].cls)))
    /\ cpc' = "runGui:320b"
    /\ UNCHANGED << restVars, heap, threadVars, last, factory, chair, sofa,
                    coffeetable, window, button, runs >>

\* End of scope: the unique_ptrs are destroyed in reverse order of
\* declaration, button first.
runGui_destroyButton ==
    /\ cpc = "runGui:320b"
    /\ heap' = Deleted(heap, button)
    /\ trace' = Append(trace, Call("delete", Kind(heap[button].cls), "none"))
    /\ cpc' = "runGui:320w"
    /\ UNCHANGED << restVars, threadVars, last, factory, chair, sofa, coffeetable,
                    window, button, out, runs >>

runGui_destroyWindow ==
    /\ cpc = "runGui:320w"
    /\ heap' = Deleted(heap, window)
    /\ trace' = Append(trace, Call("delete", Kind(heap[window].cls), "none"))
    /\ cpc' = "runGui:return"
    /\ UNCHANGED << restVars, threadVars, last, factory, chair, sofa, coffeetable,
                    window, button, out, runs >>

\* runGui returns to main.
runGui_return ==
    /\ cpc = "runGui:return"
    /\ runs' = Append(runs, Run("runGui"))
    /\ factory' = "none"
    /\ cpc' = "main"
    /\ UNCHANGED << restVars, heap, threadVars, last, chair, sofa, coffeetable,
                    window, button, trace, out >>

\* ------------------------------------------------------- specifications
\* Spec: threads create products concurrently and release them.
Next ==
    \/ \E t \in Threads, f \in FurnitureFactory, op \in FurnitureOps :
          CreateCall(t, f, op)
    \/ \E t \in Threads : CreateReturn(t)
    \/ \E t \in Threads, p \in DOMAIN heap : Release(t, p)

Spec == Init /\ [][Next]_vars

\* SpecUse: one thread creates products and uses them.
NextUse ==
    \/ \E f \in FurnitureFactory, op \in FurnitureOps :
          CreateCall(MainThread, f, op)
    \/ CreateReturn(MainThread)
    \/ \E c \in DOMAIN heap : SitOn(c)
    \/ \E s \in DOMAIN heap : LayOn(s)
    \/ \E s, c \in DOMAIN heap : PutAside(s, c)
    \/ \E ct \in DOMAIN heap : CoffeeOnMe(ct)
    \/ \E ct, s \in DOMAIN heap : SittingOn(ct, s)

SpecUse == Init /\ [][NextUse]_vars

\* SpecClient: the driver runs ClientCode and runGui against factories.
NextClient ==
    \/ \E f \in FurnitureFactory : main_newFactory(f)
    \/ ClientCode_createChair
    \/ ClientCode_createSofa
    \/ ClientCode_createCoffeeTable
    \/ ClientCode_sitOn
    \/ ClientCode_layOn
    \/ ClientCode_putAside
    \/ ClientCode_coffeeOnMe
    \/ ClientCode_sittingOn
    \/ ClientCode_deleteChair
    \/ ClientCode_deleteSofa
    \/ ClientCode_deleteCoffeeTable
    \/ ClientCode_return
    \/ main_deleteFactory
    \/ \E f \in GuiFactory : gui_main(f)
    \/ runGui_createWindow
    \/ runGui_createButton
    \/ runGui_renderWindow
    \/ runGui_renderButton
    \/ runGui_clickInside
    \/ runGui_destroyButton
    \/ runGui_destroyWindow
    \/ runGui_return

SpecClient == Init /\ [][NextClient]_vars

\* ===================================================== claims under Spec
IsConstructed(p) == p \in DOMAIN heap /\ heap[p].st # "raw"

\* C1 (family consistency): every product a factory has returned so far,
\* whatever the order and number of createChair / createSofa /
\* createCoffeeTable calls on it, is of the variant of that factory.
C1_FamilyConsistency ==
    \A p \in DOMAIN heap :
        IsConstructed(p) =>
            Variant(heap[p].cls) = FactoryVariant(heap[p].madeBy)

\* C1 witness: one factory (other than the Modern one) has returned two
\* products of different kinds.
C1_Witness ==
    \E p, q \in DOMAIN heap :
        /\ IsConstructed(p) /\ IsConstructed(q)
        /\ heap[p].madeBy = heap[q].madeBy
        /\ heap[p].madeBy # "ModernFurnitureFactory"
        /\ heap[p].op # heap[q].op

\* C5 (idempotent creation): each creation call returns an object that no
\* earlier call returned (its storage was raw until this call constructed
\* it); two products of the same operation of the same factory have equal
\* use() Descriptions; deleting one product leaves every other live product
\* live with the same use() Description.
C5_EqualDescriptions ==
    \A p, q \in DOMAIN heap :
        ( /\ IsConstructed(p) /\ IsConstructed(q)
          /\ heap[p].madeBy = heap[q].madeBy
          /\ heap[p].op = heap[q].op )
        => Use(heap[p].cls) = Use(heap[q].cls)

C5_Step ==
    /\ \A t \in Threads :
          ( pc[t] = "new" /\ pc'[t] = "idle" ) =>
              /\ heap[cur[t].addr].st = "raw"
              /\ Live(heap', cur[t].addr)
    /\ \A p \in DOMAIN heap :
          ( Live(heap, p) /\ heap'[p].st = "freed" ) =>
              \A q \in DOMAIN heap \ { p } :
                  Live(heap, q) =>
                      /\ Live(heap', q)
                      /\ Use(heap'[q].cls) = Use(heap[q].cls)

C5_IdempotentCreation == [] C5_EqualDescriptions /\ [][C5_Step]_vars

\* C5 witness: the same operation of the same factory was called twice, and
\* one of the two products has been released while the other is live.
C5_Witness ==
    \E p, q \in DOMAIN heap :
        /\ p # q
        /\ heap[p].madeBy = heap[q].madeBy
        /\ heap[p].op = heap[q].op
        /\ heap[p].st = "freed"
        /\ heap[q].st = "live"

\* C6 (stateless, commuting creation): in every state of every interleaving
\* of creation calls by the threads, each call issued has obtained exactly
\* one object of its own, the calls in flight hold pairwise different
\* objects, and the class of every constructed product is the one its own
\* call (factory and operation) determines, whichever calls preceded or
\* overlapped it; once no call is in flight every call has its product.
C6_CommutingCreation ==
    /\ Len(heap) = ncalls
    /\ \A p \in DOMAIN heap :
          IsConstructed(p) => heap[p].cls = Create(heap[p].madeBy, heap[p].op)
    /\ \A t \in Threads :
          pc[t] = "new" =>
              /\ cur[t].addr \in DOMAIN heap
              /\ heap[cur[t].addr].st = "raw"
              /\ heap[cur[t].addr].madeBy = cur[t].factory
              /\ heap[cur[t].addr].op = cur[t].op
              /\ \A u \in Threads \ { t } :
                    pc[u] = "new" => cur[u].addr # cur[t].addr
    /\ ( \A t \in Threads : pc[t] = "idle" ) =>
          \A p \in DOMAIN heap : IsConstructed(p)

\* C6 witness: two calls on different factories overlapped and completed in
\* the opposite order: the later call has returned its product while the
\* earlier one is still constructing.
C6_Witness ==
    \E p, q \in DOMAIN heap :
        /\ p < q
        /\ heap[p].st = "raw"
        /\ heap[q].st = "live"
        /\ heap[p].madeBy # heap[q].madeBy

\* ================================================== claims under SpecUse
\* t occurs in s as a contiguous substring.
Contains(s, t) ==
    /\ Len(t) <= Len(s)
    /\ \E i \in 0 .. (Len(s) - Len(t)) : SubSeq(s, i + 1, i + Len(t)) = t

IsPrefix(t, s) == Len(t) <= Len(s) /\ SubSeq(s, 1, Len(t)) = t

IsSuffix(t, s) ==
    Len(t) <= Len(s) /\ SubSeq(s, Len(s) - Len(t) + 1, Len(s)) = t

\* Letter case folded away, for matching names written in another case.
LowerChar(ch) ==
    CASE ch = "A" -> "a" [] ch = "B" -> "b" [] ch = "C" -> "c"
      [] ch = "D" -> "d" [] ch = "E" -> "e" [] ch = "F" -> "f"
      [] ch = "G" -> "g" [] ch = "H" -> "h" [] ch = "I" -> "i"
      [] ch = "J" -> "j" [] ch = "K" -> "k" [] ch = "L" -> "l"
      [] ch = "M" -> "m" [] ch = "N" -> "n" [] ch = "O" -> "o"
      [] ch = "P" -> "p" [] ch = "Q" -> "q" [] ch = "R" -> "r"
      [] ch = "S" -> "s" [] ch = "T" -> "t" [] ch = "U" -> "u"
      [] ch = "V" -> "v" [] ch = "W" -> "w" [] ch = "X" -> "x"
      [] ch = "Y" -> "y" [] ch = "Z" -> "z"
      [] OTHER -> ch

Lower(s) == [ i \in 1 .. Len(s) |-> LowerChar(s[i]) ]

ContainsIgnoringCase(s, t) == Contains(Lower(s), Lower(t))

FurnitureVariants == { "Modern", "Victorian", "ArtDeco" }

\* The name of a variant, as the class names spell it.
VariantName(v) ==
    CASE v = "Modern" -> << "M", "o", "d", "e", "r", "n" >>
      [] v = "Victorian" -> << "V", "i", "c", "t", "o", "r", "i", "a", "n" >>
      [] v = "ArtDeco" -> << "A", "r", "t", "D", "e", "c", "o" >>

SameFactory(p, q) == heap[p].madeBy = heap[q].madeBy

\* C2 as stated: for a sofa and a chair of the same factory, putAside's
\* Description contains both the sofa's layOn() and the chair's sitOn();
\* for a table and a sofa of the same factory, sittingOn's Description
\* contains both the table's coffeeOnMe() and the sofa's layOn().
C2_AsStated ==
    /\ ( last.op = "putAside" /\ SameFactory(last.self, last.arg) ) =>
          /\ Contains(last.result, layOn(heap[last.self].cls))
          /\ Contains(last.result, sitOn(heap[last.arg].cls))
    /\ ( last.op = "sittingOn" /\ SameFactory(last.self, last.arg) ) =>
          /\ Contains(last.result, coffeeOnMe(heap[last.self].cls))
          /\ Contains(last.result, layOn(heap[last.arg].cls))

\* C2 as amended: for a sofa and a chair of the same factory, putAside's
\* Description is a phrase of the sofa's own that mentions the sofa,
\* followed by the chair's sitOn(); it does not contain the sofa's layOn().
\* For a table and a sofa of the same factory, sittingOn's Description is
\* the sofa's layOn() followed by a phrase of the table's own that mentions
\* the coffee table; it does not contain the table's coffeeOnMe().
C2_OwnPhraseComposition ==
    /\ ( last.op = "putAside" /\ SameFactory(last.self, last.arg) ) =>
          LET use == sitOn(heap[last.arg].cls)
              own == SubSeq(last.result, 1, Len(last.result) - Len(use))
          IN  /\ IsSuffix(use, last.result)
              /\ ContainsIgnoringCase(own, << "s", "o", "f", "a" >>)
              /\ ~ Contains(last.result, layOn(heap[last.self].cls))
    /\ ( last.op = "sittingOn" /\ SameFactory(last.self, last.arg) ) =>
          LET use == layOn(heap[last.arg].cls)
              own == SubSeq(last.result, Len(use) + 1, Len(last.result))
          IN  /\ IsPrefix(use, last.result)
              /\ ContainsIgnoringCase(own, << "c", "o", "f", "f", "e", "e", " ", "t", "a", "b", "l", "e" >>)
              /\ ~ Contains(last.result, coffeeOnMe(heap[last.self].cls))

\* C2 witness: the Modern factory's table was given the Modern factory's
\* sofa.
C2_Witness ==
    /\ last.op = "sittingOn"
    /\ heap[last.self].madeBy = "ModernFurnitureFactory"
    /\ heap[last.arg].madeBy = "ModernFurnitureFactory"

\* C3 (collaboration composition): whatever the variants, putAside's
\* Description contains the chair's sitOn() and sittingOn's Description
\* contains the sofa's layOn().
C3_CollaborationComposition ==
    /\ last.op = "putAside" =>
          Contains(last.result, sitOn(heap[last.arg].cls))
    /\ last.op = "sittingOn" =>
          Contains(last.result, layOn(heap[last.arg].cls))

\* C3 witness: a Victorian sofa was put aside a chair.
C3_Witness ==
    /\ last.op = "putAside"
    /\ heap[last.self].cls = "VictorianSofa"

\* C4 (cross-variant permissiveness): a live sofa accepts every live chair
\* and a live table every live sofa, of whatever variants: the call is
\* possible, and between products of different variants it returns a
\* non-empty Description, longer than the collaborator's own, that contains
\* the collaborator's own.
C4_CrossVariantPermissive ==
    /\ \A s, c \in DOMAIN heap :
          ( pc[MainThread] = "idle" /\ HoldsA("Sofa", s) /\ HoldsA("Chair", c) )
              => ENABLED PutAside(s, c)
    /\ \A ct, s \in DOMAIN heap :
          ( pc[MainThread] = "idle" /\ HoldsA("CoffeeTable", ct)
            /\ HoldsA("Sofa", s) )
              => ENABLED SittingOn(ct, s)
    /\ ( /\ last.op \in { "putAside", "sittingOn" }
         /\ Variant(heap[last.self].cls) # Variant(heap[last.arg].cls) ) =>
          /\ last.result # << >>
          /\ Len(last.result) > Len(Use(heap[last.arg].cls))
          /\ Contains(last.result, Use(heap[last.arg].cls))

\* C4 witness: a sofa was put aside a chair of another variant.
C4_Witness ==
    /\ last.op = "putAside"
    /\ Variant(heap[last.self].cls) # Variant(heap[last.arg].cls)

\* The Description the call recorded in `last` returns in the present state.
Again(l) ==
    CASE l.op = "sitOn" -> sitOn(heap[l.self].cls)
      [] l.op = "layOn" -> layOn(heap[l.self].cls)
      [] l.op = "coffeeOnMe" -> coffeeOnMe(heap[l.self].cls)
      [] l.op = "putAside" -> putAside(heap[l.self].cls, heap[l.arg].cls)
      [] l.op = "sittingOn" -> sittingOn(heap[l.self].cls, heap[l.arg].cls)
      [] OTHER -> << >>

\* C7 (no mutation by use or collaboration): a step that performs sitOn,
\* layOn, coffeeOnMe, putAside or sittingOn leaves the heap as it was; no
\* step changes the class of a constructed product; and the call made last
\* returns, in every later state, the Description it returned.
C7_UseStepFrame == ( last' # last ) => ( heap' = heap )

C7_ClassKept ==
    \A p \in DOMAIN heap :
        IsConstructed(p) => ( p \in DOMAIN heap' /\ heap'[p].cls = heap[p].cls )

C7_NoMutation ==
    /\ [][C7_UseStepFrame /\ C7_ClassKept]_vars
    /\ [] ( last.result = Again(last) )

\* C7 witness: a table has described a sofa of another variant, and both
\* are still live.
C7_Witness ==
    /\ last.op = "sittingOn"
    /\ Live(heap, last.self)
    /\ Live(heap, last.arg)
    /\ Variant(heap[last.self].cls) # Variant(heap[last.arg].cls)

\* C9 (Descriptions identify the variant): the Description sitOn, layOn or
\* coffeeOnMe returns contains, letter case apart, the name of the variant
\* of the factory that made the product and the name of no other variant.
C9_DescriptionNamesVariant ==
    last.op \in { "sitOn", "layOn", "coffeeOnMe" } =>
        \A v \in FurnitureVariants :
            ContainsIgnoringCase(last.result, VariantName(v))
                <=> ( v = FactoryVariant(heap[last.self].madeBy) )

\* C9 witness: the ArtDeco factory's coffee table was used.
C9_Witness ==
    /\ last.op = "coffeeOnMe"
    /\ heap[last.self].madeBy = "ArtDecoFurnitureFactory"

\* =============================================== claims under SpecClient
Ops(tr) == [ n \in 1 .. Len(tr) |-> tr[n].op ]

Count(tr, op) == Cardinality({ n \in 1 .. Len(tr) : tr[n].op = op })

\* C8 (substitutability): every finished run of ClientCode performed
\* createChair, createSofa, createCoffeeTable, sitOn, layOn, putAside,
\* coffeeOnMe, sittingOn and three releases, in this order; any two finished
\* runs of the same client, whatever their factories, performed the same
\* operations on the same product kinds; every Description a run reported
\* is non-empty; and the products of a run are of its factory's variant.
C8_Substitutability ==
    /\ \A i \in DOMAIN runs :
          runs[i].client = "ClientCode" =>
              /\ Ops(runs[i].trace) =
                    << "createChair", "createSofa", "createCoffeeTable",
                       "sitOn", "layOn", "putAside", "coffeeOnMe",
                       "sittingOn", "delete", "delete", "delete" >>
              /\ Len(runs[i].out) = Count(runs[i].trace, "sitOn")
                    + Count(runs[i].trace, "layOn")
                    + Count(runs[i].trace, "putAside")
                    + Count(runs[i].trace, "coffeeOnMe")
                    + Count(runs[i].trace, "sittingOn")
    /\ \A i, j \in DOMAIN runs :
          runs[i].client = runs[j].client => runs[i].trace = runs[j].trace
    /\ \A i \in DOMAIN runs :
          /\ \A k \in DOMAIN runs[i].out : runs[i].out[k] # << >>
          /\ \A p \in runs[i].products :
                Variant(heap[p].cls) = FactoryVariant(runs[i].factory)

\* C8 witness: ClientCode has run to its end against two different
\* factories.
C8_Witness ==
    \E i, j \in DOMAIN runs :
        /\ runs[i].client = "ClientCode"
        /\ runs[j].client = "ClientCode"
        /\ runs[i].factory # runs[j].factory

Phase(op) ==
    CASE op \in { "createChair", "createSofa", "createCoffeeTable",
                  "createWindow", "createButton" } -> 1
      [] op = "delete" -> 3
      [] OTHER -> 2

AtEndOfRun == cpc \in { "ClientCode:181", "runGui:return" }

\* The pointers the statement at cpc dereferences or deletes.
Touched ==
    CASE cpc = "ClientCode:173" -> { chair }
      [] cpc = "ClientCode:174" -> { sofa }
      [] cpc = "ClientCode:175" -> { sofa, chair }
      [] cpc = "ClientCode:176" -> { coffeetable }
      [] cpc = "ClientCode:177" -> { coffeetable, sofa }
      [] cpc = "ClientCode:178" -> { chair }
      [] cpc = "ClientCode:179" -> { sofa }
      [] cpc = "ClientCode:180" -> { coffeetable }
      [] cpc = "runGui:315" -> { window }
      [] cpc = "runGui:316" -> { button }
      [] cpc = "runGui:317" -> { button, window }
      [] cpc = "runGui:320b" -> { button }
      [] cpc = "runGui:320w" -> { window }
      [] OTHER -> { }

\* C10 (orchestrator lifecycle): within a run the operations come in the
\* order creations, then uses and collaborations, then releases; every
\* product a statement uses, passes as collaborator or deletes is live at
\* that statement; and when the run ends each creation operation of the
\* client was called exactly once and every product in the heap has been
\* released exactly once.
C10_Lifecycle ==
    /\ \A m, n \in DOMAIN trace :
          m < n => Phase(trace[m].op) <= Phase(trace[n].op)
    /\ \A p \in Touched : Live(heap, p)
    /\ cpc = "ClientCode:181" =>
          /\ Count(trace, "createChair") = 1
          /\ Count(trace, "createSofa") = 1
          /\ Count(trace, "createCoffeeTable") = 1
          /\ Cardinality({ chair, sofa, coffeetable } \ { 0 }) = 3
    /\ cpc = "runGui:return" =>
          /\ Count(trace, "createWindow") = 1
          /\ Count(trace, "createButton") = 1
          /\ Cardinality({ window, button } \ { 0 }) = 2
    /\ AtEndOfRun =>
          \A p \in DOMAIN heap : heap[p].st = "freed" /\ heap[p].dels = 1

\* C10 witness: a run of ClientCode has reached its end after an earlier
\* run of runGui.
C10_Witness ==
    /\ cpc = "ClientCode:181"
    /\ \E i \in DOMAIN runs : runs[i].client = "runGui"

\* ================================= Singleton.cpp: Singleton::getInstance
\* const std::string& getValue() const
getValue(p) == singletons[p].val_

\* Thread t calls Singleton::getInstance(a).
getInstance_call(t, a) ==
    /\ spc[t] = "idle"
    /\ sarg' = [ sarg EXCEPT ![t] = a ]
    /\ spc' = [ spc EXCEPT ![t] = "getInstance:45" ]
    /\ UNCHANGED << heap, threadVars, last, clientVars, builderVars,
                    directorVars, instanceGuard,
                    instance, singletons, sret >>

\* Control reaches the declaration of the static local of getInstance<T>:
\* the first thread to arrive initializes it, a thread arriving during the
\* initialization waits, a thread arriving afterwards passes.
getInstance_static(t) ==
    /\ spc[t] = "getInstance:45"
    /\ instanceGuard[sarg[t].T] # "busy"
    /\ IF instanceGuard[sarg[t].T] = "uninit"
         THEN /\ instanceGuard' = [ instanceGuard EXCEPT ![sarg[t].T] = "busy" ]
              /\ spc' = [ spc EXCEPT ![t] = "Singleton:57" ]
         ELSE /\ instanceGuard' = instanceGuard
              /\ spc' = [ spc EXCEPT ![t] = "getInstance:46" ]
    /\ UNCHANGED << heap, threadVars, last, clientVars, builderVars,
                    directorVars, instance, singletons,
                    sarg, sret >>

\* new Singleton{std::forward<T>(val)}: the constructor stores val_, the
\* pointer initializes `instance` and the initialization is complete.
getInstance_construct(t) ==
    /\ spc[t] = "Singleton:57"
    /\ singletons' = Append(singletons, [ val_ |-> sarg[t].val ])
    /\ instance' = [ instance EXCEPT ![sarg[t].T] = Len(singletons) + 1 ]
    /\ instanceGuard' = [ instanceGuard EXCEPT ![sarg[t].T] = "done" ]
    /\ spc' = [ spc EXCEPT ![t] = "getInstance:46" ]
    /\ UNCHANGED << heap, threadVars, last, clientVars, builderVars,
                    directorVars, sarg, sret >>

\* return instance.get();
getInstance_return(t) ==
    /\ spc[t] = "getInstance:46"
    /\ sret' = [ sret EXCEPT ![t] = instance[sarg[t].T] ]
    /\ spc' = [ spc EXCEPT ![t] = "idle" ]
    /\ UNCHANGED << heap, threadVars, last, clientVars, builderVars,
                    directorVars, instanceGuard,
                    instance, singletons, sarg >>

\* SpecSingleton: the threads call getInstance with any of the arguments.
NextSingleton ==
    \/ \E t \in SingletonThreads, a \in SingletonArgs : getInstance_call(t, a)
    \/ \E t \in SingletonThreads : getInstance_static(t)
    \/ \E t \in SingletonThreads : getInstance_construct(t)
    \/ \E t \in SingletonThreads : getInstance_return(t)

SpecSingleton == Init /\ [][NextSingleton]_vars

\* ------------------------------------------ claims under SpecSingleton
\* C11 (Singleton uniqueness) as stated: the Singleton constructor has run
\* at most once, every call to getInstance, whatever its thread and its
\* argument, has returned the same instance, and getValue() gives every
\* caller the same value.
C11_SingletonUnique ==
    /\ Len(singletons) <= 1
    /\ \A t, u \in SingletonThreads :
          ( sret[t] # 0 /\ sret[u] # 0 ) =>
              /\ sret[t] = sret[u]
              /\ getValue(sret[t]) = getValue(sret[u])

\* What the code does ensure: one instance per specialization of
\* getInstance, constructed by one thread only.
OneInstancePerInstantiation ==
    /\ Len(singletons) <= Cardinality(Instantiations)
    /\ \A T, U \in Instantiations :
          ( instance[T] # 0 /\ instance[T] = instance[U] ) => T = U
    /\ \A t, u \in SingletonThreads :
          ( /\ spc[t] = "idle" /\ spc[u] = "idle"
            /\ sret[t] # 0 /\ sret[u] # 0
            /\ sarg[t].T = sarg[u].T ) => sret[t] = sret[u]
    /\ \A t, u \in SingletonThreads :
          ( spc[t] = "Singleton:57" /\ spc[u] = "Singleton:57"
            /\ sarg[t].T = sarg[u].T ) => t = u

\* ============================================ Builder.cpp: the builders
otherVars == << heap, threadVars, last, clientVars, singletonVars >>

\* The string each concrete builder's makeBread passes to addPart.
BreadOf(b) ==
    CASE b = "VegSandwichBuilder" -> "Whole Grain Bread"
      [] b = "ChickenBurgerBuilder" -> "Sesame Bun"
      [] b = "BeefBurgerBuilder" -> "Classic Bun"

\* The string each concrete builder's makeSauce passes to addPart.
SauceOf(b) ==
    CASE b = "VegSandwichBuilder" -> "Low Calories Hummus"
      [] b = "ChickenBurgerBuilder" -> "Spicy Mayo"
      [] b = "BeefBurgerBuilder" -> "BBQ Sauce"

\* The string each concrete builder's makeIngredients passes to addPart.
IngredientsOf(b) ==
    CASE b = "VegSandwichBuilder" -> "Mozzarella, Tomatoes, Cucumber, Lettuce"
      [] b = "ChickenBurgerBuilder" -> "Grilled Chicken, Lettuce, Tomato"
      [] b = "BeefBurgerBuilder" -> "Beef Patty, Cheddar, Pickles, Onion"

\* Sandwich::addPart on the sandwich at address p: parts.push_back(part).
addPart(h, p, part) == [ h EXCEPT ![p].parts = Append(@, part) ]

\* ~Sandwich and operator delete: the parts vector is destroyed.
DestroySandwich(h, p) == [ h EXCEPT ![p].parts = << >>, ![p].st = "freed" ]

\* sandwich = std::make_unique<Sandwich>(): the new sandwich is made first,
\* then the assignment destroys the one the pointer held, if any.
ResetSandwiches(h, b, old) ==
    LET made == Append(h, NewSandwich(b))
    IN  IF old = 0 THEN made ELSE DestroySandwich(made, old)

RECURSIVE PartsFrom(_, _)
PartsFrom(h, p) ==
    IF p > Len(h) THEN 0 ELSE Len(h[p].parts) + PartsFrom(h, p + 1)

\* Number of parts held by all sandwiches.
PartsInUse == PartsFrom(sandwiches, 1)

\* b.makeBread()
makeBread(b) ==
    /\ PartsInUse < MaxParts
    /\ sandwiches' = addPart(sandwiches, sandwich[b], BreadOf(b))
    /\ added' = [ added EXCEPT ![b] = Append(@, BreadOf(b)) ]
    /\ UNCHANGED << sandwich, products, directorVars, otherVars >>

\* b.makeSauce()
makeSauce(b) ==
    /\ PartsInUse < MaxParts
    /\ sandwiches' = addPart(sandwiches, sandwich[b], SauceOf(b))
    /\ added' = [ added EXCEPT ![b] = Append(@, SauceOf(b)) ]
    /\ UNCHANGED << sandwich, products, directorVars, otherVars >>

\* b.makeIngredients()
makeIngredients(b) ==
    /\ PartsInUse < MaxParts
    /\ sandwiches' = addPart(sandwiches, sandwich[b], IngredientsOf(b))
    /\ added' = [ added EXCEPT ![b] = Append(@, IngredientsOf(b)) ]
    /\ UNCHANGED << sandwich, products, directorVars, otherVars >>

\* b.reset()
reset(b) ==
    /\ Len(sandwiches) < MaxSandwiches
    /\ sandwiches' = ResetSandwiches(sandwiches, b, sandwich[b])
    /\ sandwich' = [ sandwich EXCEPT ![b] = Len(sandwiches) + 1 ]
    /\ added' = [ added EXCEPT ![b] = << >> ]
    /\ UNCHANGED << products, directorVars, otherVars >>

\* Mutant of getProduct: the builder hands out the raw pointer and keeps
\* its sandwich, without the move and the reset.
getProduct_keepsSandwich(b) ==
    /\ Len(sandwiches) < MaxSandwiches
    /\ sandwich[b] \notin products
    /\ products' = products \cup { sandwich[b] }
    /\ added' = [ added EXCEPT ![b] = << >> ]
    /\ UNCHANGED << sandwiches, sandwich, directorVars, otherVars >>

\* auto product = b.getProduct(): res takes the sandwich and leaves the
\* member null, reset() makes a new one, res is returned to the client.
getProduct(b) ==
    /\ Len(sandwiches) < MaxSandwiches
    /\ sandwiches' = ResetSandwiches(sandwiches, b, 0)
    /\ sandwich' = [ sandwich EXCEPT ![b] = Len(sandwiches) + 1 ]
    /\ products' = products \cup { sandwich[b] }
    /\ added' = [ added EXCEPT ![b] = << >> ]
    /\ UNCHANGED << directorVars, otherVars >>

\* The client's unique_ptr to the product p goes out of scope.
dropProduct(p) ==
    /\ p \in products
    /\ sandwiches' = DestroySandwich(sandwiches, p)
    /\ products' = products \ { p }
    /\ UNCHANGED << sandwich, added, directorVars, otherVars >>

\* SpecBuilder: the client drives the builders directly.
NextBuilder ==
    \/ \E b \in Builders : makeBread(b)
    \/ \E b \in Builders : makeSauce(b)
    \/ \E b \in Builders : makeIngredients(b)
    \/ \E b \in Builders : reset(b)
    \/ \E b \in Builders : getProduct(b)
    \/ \E p \in products : dropProduct(p)

SpecBuilder == Init /\ [][NextBuilder]_vars

\* ================================================= claims under SpecBuilder
\* C12 (builder product isolation): in every state each builder holds a
\* non-null, live sandwich of its own, which no other builder and not the
\* client holds, and whose parts are exactly the parts added to the builder
\* since its last reset/getProduct, in the order added.  A getProduct step
\* hands the client the sandwich with exactly those parts and leaves the
\* builder with a newly made, empty sandwich; no step changes the parts of
\* a product the client already holds.
C12_BuilderHoldsOwnSandwich ==
    \A b \in Builders :
        /\ sandwich[b] # 0
        /\ sandwich[b] \in DOMAIN sandwiches
        /\ sandwiches[sandwich[b]].st = "live"
        /\ sandwiches[sandwich[b]].parts = added[b]
        /\ sandwich[b] \notin products
        /\ \A c \in Builders \ { b } : sandwich[c] # sandwich[b]

C12_Step ==
    /\ \A p \in products' \ products :
          \E b \in Builders :
              /\ p = sandwich[b]
              /\ sandwiches'[p].st = "live"
              /\ sandwiches'[p].parts = added[b]
              /\ sandwich'[b] \notin DOMAIN sandwiches
              /\ sandwich'[b] \in DOMAIN sandwiches'
              /\ sandwiches'[sandwich'[b]].parts = << >>
    /\ \A p \in products \cap products' :
          /\ sandwiches'[p].parts = sandwiches[p].parts
          /\ sandwiches'[p].st = "live"

C12_ProductIsolation ==
    [] C12_BuilderHoldsOwnSandwich /\ [][C12_Step]_vars

\* C12 witness: the client holds a product with a part in it, and the
\* builder it came from has since been given another part.
C12_Witness ==
    \E p \in products :
        /\ sandwiches[p].parts # << >>
        /\ added[sandwiches[p].by] # << >>
        /\ sandwiches[sandwich[sandwiches[p].by]].parts # sandwiches[p].parts

\* ============================================= Builder.cpp: the Director
\* Mutant of setBuilder: a builder once set is kept.
setBuilder_keepsFirst(b) ==
    /\ builder' = IF builder = "nullptr" THEN b ELSE builder
    /\ lastSet' = b
    /\ outcome' = "none"
    /\ UNCHANGED << builderVars, otherVars >>

\* director.setBuilder(b), b the address of a builder or nullptr
setBuilder(b) ==
    /\ builder' = b
    /\ lastSet' = b
    /\ outcome' = "none"
    /\ UNCHANGED << builderVars, otherVars >>

\* director.buildProduct(): throws if builder is null, else calls
\* builder->makeBread(), builder->makeSauce(), builder->makeIngredients().
buildProduct ==
    IF builder = "nullptr"
      THEN /\ outcome' = "Builder is not set"
           /\ UNCHANGED << builder, lastSet, builderVars, otherVars >>
      ELSE LET p == sandwich[builder]
               afterBread == addPart(sandwiches, p, BreadOf(builder))
               afterSauce == addPart(afterBread, p, SauceOf(builder))
               afterIngredients ==
                   addPart(afterSauce, p, IngredientsOf(builder))
           IN  /\ Len(sandwiches[p].parts) < 3 * MaxBuilds
               /\ sandwiches' = afterIngredients
               /\ added' = [ added EXCEPT ![builder] =
                               @ \o << BreadOf(builder), SauceOf(builder),
                                       IngredientsOf(builder) >> ]
               /\ outcome' = "returned"
               /\ UNCHANGED << builder, lastSet, sandwich, products,
                               otherVars >>

\* SpecDirector: the client builds through the Director only.
NextDirector ==
    \/ \E b \in Builders \cup { "nullptr" } : setBuilder(b)
    \/ buildProduct
    \/ \E b \in Builders : getProduct(b)

SpecDirector == Init /\ [][NextDirector]_vars

\* ---------------------------------------------- claims under SpecDirector
\* bread, sauce, ingredients of builder b, in this order.
ThreeParts(b) == << BreadOf(b), SauceOf(b), IngredientsOf(b) >>

\* parts consists of whole rounds of bread, sauce, ingredients of b.
WholeRounds(parts, b) ==
    /\ Len(parts) % 3 = 0
    /\ \A i \in DOMAIN parts : parts[i] = ThreeParts(b)[((i - 1) % 3) + 1]

\* C13 (Director step protocol): buildProduct returns normally only if the
\* latest setBuilder named a builder, and ends with "Builder is not set"
\* if no builder or nullptr was set, in which case no builder and no
\* sandwich changes.  A step that adds parts adds bread, sauce and
\* ingredients, once each and in this order, to the sandwich of the builder
\* set last and to no other; so every sandwich holds whole rounds of the
\* three parts and a product built once holds exactly the three.
C13_Outcome ==
    /\ outcome = "returned" => lastSet \in Builders
    /\ outcome = "Builder is not set" => lastSet \notin Builders
    /\ \A p \in DOMAIN sandwiches :
          WholeRounds(sandwiches[p].parts, sandwiches[p].by)
    /\ \A p \in products :
          Len(sandwiches[p].parts) <= 3 =>
              sandwiches[p].parts \in { << >>, ThreeParts(sandwiches[p].by) }

C13_Step ==
    /\ ( outcome' = "Builder is not set" /\ outcome # "Builder is not set" )
          => UNCHANGED << builderVars, builder >>
    /\ \A p \in DOMAIN sandwiches :
          Len(sandwiches'[p].parts) > Len(sandwiches[p].parts) =>
              /\ lastSet \in Builders
              /\ p = sandwich[lastSet]
              /\ sandwiches'[p].parts =
                    sandwiches[p].parts \o ThreeParts(lastSet)
              /\ \A q \in DOMAIN sandwiches \ { p } :
                    sandwiches'[q] = sandwiches[q]
              /\ sandwich' = sandwich
              /\ outcome' = "returned"
    /\ ( outcome' = "returned" /\ outcome # "returned" ) =>
          \E p \in DOMAIN sandwiches :
              Len(sandwiches'[p].parts) = Len(sandwiches[p].parts) + 3

C13_DirectorProtocol == [] C13_Outcome /\ [][C13_Step]_vars

\* C13 witness: after a build on one builder, whose product the client has
\* taken, another builder was set and built on.
C13_Witness ==
    /\ outcome = "returned"
    /\ sandwiches[sandwich[lastSet]].parts = ThreeParts(lastSet)
    /\ \E p \in products :
          /\ sandwiches[p].by # lastSet
          /\ sandwiches[p].parts = ThreeParts(sandwiches[p].by)

====
